---- MODULE Spec2Model ----
(* A model of muncher/manipulation.py: the tabular-data primitives            *)
(* columnManipulation, dataCleaning, dataGroupBy, dataSampling, dataPivoting.  *)
(* A dataset is a sequence of rows; a row is a function from the column names  *)
(* it holds to cells. Each primitive is one call: the action takes the         *)
(* caller's dataset and the arguments, and leaves the returned value (or the   *)
(* exception raised) in result and the caller's list in dataset.               *)
EXTENDS Integers, Sequences, FiniteSets, TLC

VARIABLES
    pc,        \* "ready" before the call, "done" after it
    dataset,   \* the caller's list of rows (the object passed as `dataset`)
    args,      \* the arguments of the call, the dataset as it was on entry included
    result     \* what the call produced: a returned value or a raised exception

vars == <<pc, dataset, args, result>>

\* ------------------------------------------------------------------ bounds
MaxCleanRows == 3     \* rows of a dataset given to dataCleaning
MaxGroupRows == 3     \* rows of a dataset given to dataGroupBy
MaxVal == 2           \* numeric cells are 1..MaxVal
MaxMapRows == 3       \* rows of a dataset given to columnManipulation
MaxSampleRows == 4    \* rows of a dataset given to dataSampling
MaxSeed == 11         \* int(time.time()) is drawn from 0..MaxSeed
MaxNum == 4           \* fraction = num/den, num in 0..MaxNum
MaxDen == 3           \* den in 1..MaxDen
MaxPivotRows == 3     \* rows of a dataset given to dataPivoting

\* ------------------------------------------------------------------ cells
\* Python values, one record shape for all of them so that any two compare.
\* k: "none" (None), "str" (the empty string ''), "num" (an int, or the float
\* n/d that a true division produced, in lowest terms), "list" (a list of cells).
None == [k |-> "none", n |-> 0, d |-> 1, xs |-> <<>>]
EmptyStr == [k |-> "str", n |-> 0, d |-> 1, xs |-> <<>>]
Num(i) == [k |-> "num", n |-> i, d |-> 1, xs |-> <<>>]
List(s) == [k |-> "list", n |-> 0, d |-> 1, xs |-> s]

Nums == {Num(i) : i \in 1..MaxVal}

RECURSIVE GCD(_, _)
GCD(a, b) == IF b = 0 THEN a ELSE GCD(b, a % b)

\* a / b of Python 3 on non-negative ints, b > 0: the quotient as a number
\* (5.0 == 5 in Python, so a whole quotient is the number itself).
TrueDiv(a, b) ==
    LET g == GCD(a, b)
    IN  [k |-> "num", n |-> a \div g, d |-> b \div g, xs |-> <<>>]

\* sum(values) over ints
RECURSIVE sum(_)
sum(values) ==
    IF values = <<>> THEN 0 ELSE Head(values).n + sum(Tail(values))

\* a < b on numbers
Less(a, b) == a.n * b.d < b.n * a.d

\* max(values) on a non-empty list of numbers: the first maximal element
RECURSIVE max(_)
max(values) ==
    IF Len(values) = 1 THEN values[1]
    ELSE LET m == max(Tail(values))
         IN  IF Less(Head(values), m) THEN m ELSE Head(values)

\* sorted(values): ascending, stable
RECURSIVE sorted(_)
sorted(values) ==
    IF values = <<>> THEN <<>>
    ELSE LET h == Head(values)
             t == sorted(Tail(values))
             lo == SelectSeq(t, LAMBDA x : Less(x, h))
             hi == SelectSeq(t, LAMBDA x : ~Less(x, h))
         IN  lo \o <<h>> \o hi

\* a returned value / a raised exception
Return(v) == [status |-> "return", value |-> v, exc |-> ""]
Raise(e) == [status |-> "raise", value |-> <<>>, exc |-> e]
NoResult == [status |-> "none", value |-> <<>>, exc |-> ""]
NoArgs == [op |-> "none"]

\* the rows over some of the columns of cells, the cell of column c in cells[c]
Rows(cells) ==
    UNION {{r \in [D -> UNION {cells[c] : c \in D}] : \A c \in D : r[c] \in cells[c]} :
           D \in SUBSET DOMAIN cells}

\* the sequences of 0..n elements of S
SeqsUpTo(S, n) == UNION {[1..m -> S] : m \in 0..n}

\* ------------------------------------------------------------- dataCleaning
Strategies == {"mean", "median", "mode", "remove"}

\* value is None or value == ''  (line 35);  r[column] not in (None, '')
isMissing(value) == value.k = "none" \/ value.k = "str"

\* [r[column] for r in dataset if column in r and r[column] not in (None, '')]
RECURSIVE nonMissing(_, _)
nonMissing(ds, column) ==
    IF ds = <<>> THEN <<>>
    ELSE LET r == Head(ds)
             rest == nonMissing(Tail(ds), column)
         IN  IF column \in DOMAIN r /\ ~isMissing(r[column])
             THEN <<r[column]>> \o rest ELSE rest

\* values.count(v)
count(values, v) == Len(SelectSeq(values, LAMBDA x : x = v))

\* max(set(values), key=values.count): the first element of the set with the
\* greatest count; CPython iterates a set of small ints in ascending order.
mode(values) ==
    LET S == {values[i] : i \in 1..Len(values)}
        best == {v \in S : \A w \in S : count(values, w) <= count(values, v)}
    IN  CHOOSE v \in best : \A w \in best : ~Less(w, v)

\* a median that takes the lower middle element of an even count
medianIndexLower(values) == ((Len(values) - 1) \div 2) + 1

\* len(values) // 2 (line 41), as an index of a sequence that starts at 1
medianIndex(values) == (Len(values) \div 2) + 1

\* lines 36-44: the value written for a missing cell of `column`
imputed(ds, column, strategy) ==
    LET values == nonMissing(ds, column)
    IN  IF values = <<>> THEN None
        ELSE IF strategy = "mean" THEN TrueDiv(sum(values), Len(values))
        ELSE IF strategy = "median" THEN sorted(values)[medianIndex(values)]
        ELSE mode(values)

\* a cleaning that copies every column of the row, in the schema or not
keptColumnsOfRow(columns, row, strategy) ==
    {c \in DOMAIN row : isMissing(row[c]) => strategy # "remove"}

\* the columns of `row` that lines 31-48 write into cleaned_row: a column of
\* the schema absent from the row is skipped (line 32); under 'remove' the
\* `continue` of line 46 skips the missing cell and goes on to the next column.
keptColumns(columns, row, strategy) ==
    {c \in columns \cap DOMAIN row : isMissing(row[c]) => strategy # "remove"}

\* lines 30-48: the cleaned_row built for `row`
cleanedRow(ds, columns, row, strategy) ==
    [c \in keptColumns(columns, row, strategy) |->
        IF isMissing(row[c]) THEN imputed(ds, c, strategy) ELSE row[c]]

\* lines 26-52; dataset[0] on an empty list raises IndexError
dataCleaning(ds, strategy) ==
    IF ds = <<>> THEN Raise("IndexError")
    ELSE LET columns == DOMAIN ds[1]
         IN  Return([i \in 1..Len(ds) |-> cleanedRow(ds, columns, ds[i], strategy)])

\* column a holds every kind of scalar cell, column b None or one number
CleanCells == [c \in {"a", "b"} |->
                 IF c = "a" THEN {None, EmptyStr} \cup Nums ELSE {None, Num(1)}]
CleanDatasets == SeqsUpTo(Rows(CleanCells), MaxCleanRows)

InitCleaning ==
    /\ pc = "ready"
    /\ dataset \in CleanDatasets
    /\ args = NoArgs
    /\ result = NoResult

DataCleaning ==
    /\ pc = "ready"
    /\ \E strategy \in Strategies :
        /\ args' = [op |-> "dataCleaning", dataset |-> dataset, strategy |-> strategy]
        /\ result' = dataCleaning(dataset, strategy)
    /\ pc' = "done"
    /\ UNCHANGED dataset

SpecCleaning == InitCleaning /\ [][DataCleaning]_vars

\* a finished call of dataCleaning on a non-empty dataset
Cleaned(strategy) ==
    /\ pc = "done"
    /\ args.op = "dataCleaning"
    /\ args.strategy = strategy
    /\ args.dataset # <<>>

Schema == DOMAIN args.dataset[1]

\* the row has a missing cell in some column of the schema
HasMissing(row) == \E c \in Schema \cap DOMAIN row : isMissing(row[c])

\* C1: under 'remove' the output is the input rows that have no missing cell
\* in a schema column, in input order, each with all of its schema columns;
\* a row that has a missing cell yields no output row.
C1_RemoveDropsRows ==
    Cleaned("remove") =>
        /\ result.status = "return"
        /\ result.value =
              LET kept == SelectSeq(args.dataset, LAMBDA r : ~HasMissing(r))
              IN  [i \in 1..Len(kept) |-> [c \in Schema \cap DOMAIN kept[i] |-> kept[i][c]]]

\* the non-missing values of `column` over the whole dataset, by row index
Holders(column) ==
    {i \in 1..Len(args.dataset) :
        column \in DOMAIN args.dataset[i] /\ ~isMissing(args.dataset[i][column])}

\* v stands at index k (from 0) of the ascending order of the column's values
AtSortedIndex(column, v, k) ==
    /\ \E i \in Holders(column) : args.dataset[i][column] = v
    /\ Cardinality({i \in Holders(column) : Less(args.dataset[i][column], v)}) <= k
    /\ k < Cardinality({i \in Holders(column) : ~Less(v, args.dataset[i][column])})

\* C4: under 'median' a missing cell of a schema column becomes the element
\* at index floor(count/2) of the ascending non-missing values of the column
\* (None when there are none), and a non-missing cell is copied unchanged.
C4_MedianUpperMiddle ==
    Cleaned("median") =>
        /\ result.status = "return"
        /\ Len(result.value) = Len(args.dataset)
        /\ \A i \in 1..Len(args.dataset) :
             \A c \in Schema \cap DOMAIN args.dataset[i] :
                LET cell == args.dataset[i][c]
                    n == Cardinality(Holders(c))
                IN  /\ c \in DOMAIN result.value[i]
                    /\ ~isMissing(cell) => result.value[i][c] = cell
                    /\ isMissing(cell) /\ n = 0 => result.value[i][c] = None
                    /\ isMissing(cell) /\ n > 0 =>
                          AtSortedIndex(c, result.value[i][c], n \div 2)

\* a median call that filled a missing cell of a column holding an even
\* number of values, the two middle ones different
C4_Witness ==
    /\ Cleaned("median")
    /\ \E i \in 1..Len(args.dataset) :
         /\ "a" \in Schema \cap DOMAIN args.dataset[i]
         /\ isMissing(args.dataset[i]["a"])
         /\ Cardinality(Holders("a")) = 2
         /\ \E j, l \in Holders("a") : args.dataset[j]["a"] # args.dataset[l]["a"]
         /\ result.value[i]["a"] = Num(2)

\* C5 as stated: every output row has exactly the columns of the first row
C5_ExactlySchema ==
    pc = "done" /\ args.op = "dataCleaning" /\ result.status = "return" =>
        \A i \in 1..Len(result.value) : DOMAIN result.value[i] = Schema

\* C5, amended: every output row has only columns of the first row's key set,
\* and under mean, median and mode exactly those of them that the
\* corresponding input row holds.
C5_WithinSchema ==
    pc = "done" /\ args.op = "dataCleaning" /\ result.status = "return" =>
        /\ Len(result.value) = Len(args.dataset)
        /\ \A i \in 1..Len(result.value) :
             /\ DOMAIN result.value[i] \subseteq Schema
             /\ args.strategy # "remove" =>
                   DOMAIN result.value[i] = Schema \cap DOMAIN args.dataset[i]

\* an imputing call on a dataset with a row that lacks a schema column and a
\* row that holds a column outside the schema
C5_Witness ==
    /\ pc = "done" /\ args.op = "dataCleaning" /\ result.status = "return"
    /\ args.strategy = "mode"
    /\ \E i, j \in 1..Len(args.dataset) :
         /\ ~(Schema \subseteq DOMAIN args.dataset[i])
         /\ ~(DOMAIN args.dataset[j] \subseteq Schema)
         /\ HasMissing(args.dataset[j])

\* -------------------------------------------------------------- dataGroupBy
Kinds == {"sum", "mean", "max"}

\* lines 97-98: a cell that is no list becomes a one-element list
wrapped(cell) == IF cell.k = "list" THEN cell ELSE List(<<cell>>)

\* line 101: [value for value in row[column] if value is not None]
notNone(cell) == SelectSeq(wrapped(cell).xs, LAMBDA value : value.k # "none")

\* an accumulator that keeps only the values of the last row
extendOverwrite(acc, values) == values

\* line 103: grouped_data[group_key][column].extend(values)
extend(acc, values) == acc \o values

\* an accumulator that is created only when the row contributes a value
touchedIfValues(row, agg) ==
    {c \in DOMAIN agg \cap DOMAIN row : notNone(row[c]) # <<>>}

\* lines 91-94: the configured columns whose accumulator the row creates
touched(row, agg) == DOMAIN agg \cap DOMAIN row

\* lines 91-103 on one group's data: every configured column of the row gets
\* an accumulator, extended by the row's values that are not None
accumulate(data, row, agg) ==
    [c \in DOMAIN data \cup touched(row, agg) |->
        LET acc == IF c \in DOMAIN data THEN data[c] ELSE <<>>
        IN  IF c \in DOMAIN agg \cap DOMAIN row
            THEN extend(acc, notNone(row[c])) ELSE acc]

\* lines 88-103: grouped_data (a dict in insertion order: a sequence of
\* [key, data]) after one more row
addRow(grouped, row, g, agg) ==
    LET group_key == row[g]
        seen == {k \in 1..Len(grouped) : grouped[k].key = group_key}
    IN  IF seen = {}
        THEN Append(grouped, [key |-> group_key, data |-> accumulate(<<>>, row, agg)])
        ELSE [k \in 1..Len(grouped) |->
                IF k \in seen
                THEN [key |-> group_key, data |-> accumulate(grouped[k].data, row, agg)]
                ELSE grouped[k]]

\* lines 87-103: the collection phase
RECURSIVE collect(_, _, _, _)
collect(grouped, ds, g, agg) ==
    IF ds = <<>> THEN grouped
    ELSE collect(addRow(grouped, Head(ds), g, agg), Tail(ds), g, agg)

\* line 98: row[column] = [row[column]] rewrites the caller's row
rowAfterGroupBy(row, agg) ==
    [c \in DOMAIN row |-> IF c \in DOMAIN agg THEN wrapped(row[c]) ELSE row[c]]

\* lines 110-116: the aggregate of one accumulator (max of a non-empty one)
aggregateOf(kind, values) ==
    IF kind = "sum" THEN Num(sum(values))
    ELSE IF kind = "mean"
         THEN IF Len(values) > 0 THEN TrueDiv(sum(values), Len(values)) ELSE None
    ELSE max(values)

\* line 116: max() of an empty list raises ValueError
raisesValueError(group, agg) ==
    \E c \in DOMAIN agg \cap DOMAIN group.data :
        agg[c] = "max" /\ group.data[c] = <<>>

\* lines 107-117: the aggregated_row of one group; a kind that is none of
\* sum, mean, max writes no field, and a configured column named like the
\* grouping column overwrites the key
aggregatedRow(group, g, agg) ==
    LET cols == {c \in DOMAIN agg \cap DOMAIN group.data : agg[c] \in Kinds}
    IN  [c \in {g} \cup cols |->
            IF c \in cols THEN aggregateOf(agg[c], group.data[c]) ELSE group.key]

\* lines 86-120
dataGroupBy(ds, g, agg) ==
    LET grouped == collect(<<>>, ds, g, agg)
    IN  IF \E k \in 1..Len(grouped) : raisesValueError(grouped[k], agg)
        THEN Raise("ValueError")
        ELSE Return([k \in 1..Len(grouped) |-> aggregatedRow(grouped[k], g, agg)])

\* the grouping column g is on every row and holds a number; the value
\* column v holds None, a number or a list of them, or is absent
GroupCells == [c \in {"g", "v"} |->
                 IF c = "g" THEN {Num(1), Num(2)}
                 ELSE {None, List(<<>>), List(<<None, Num(MaxVal)>>)} \cup Nums]
GroupDatasets ==
    SeqsUpTo({r \in Rows(GroupCells) : "g" \in DOMAIN r}, MaxGroupRows)

\* aggregation_functions: v under any kind ("min" is a kind the code does
\* not know) or not configured, the grouping column itself under sum or not
Aggregations ==
    {agg \in UNION {[D -> Kinds \cup {"min"}] : D \in SUBSET {"g", "v"}} :
        "g" \in DOMAIN agg => agg["g"] = "sum"}

InitGroupBy ==
    /\ pc = "ready"
    /\ dataset \in GroupDatasets
    /\ args = NoArgs
    /\ result = NoResult

DataGroupBy ==
    /\ pc = "ready"
    /\ \E agg \in Aggregations :
        /\ args' = [op |-> "dataGroupBy", dataset |-> dataset,
                    groupby_column |-> "g", aggregation_functions |-> agg]
        /\ result' = dataGroupBy(dataset, "g", agg)
        /\ dataset' = [i \in 1..Len(dataset) |-> rowAfterGroupBy(dataset[i], agg)]
    /\ pc' = "done"

SpecGroupBy == InitGroupBy /\ [][DataGroupBy]_vars

\* a finished call of dataGroupBy
Grouped == pc = "done" /\ args.op = "dataGroupBy"

KeyOf(i) == args.dataset[i][args.groupby_column]

\* the rows at which a grouping key occurs for the first time
FirstSeen == {i \in 1..Len(args.dataset) : \A j \in 1..(i - 1) : KeyOf(j) # KeyOf(i)}

\* the k-th of them, in input order
NthFirstSeen(k) == CHOOSE i \in FirstSeen : Cardinality({j \in FirstSeen : j < i}) = k - 1

\* the rows of the group of row i
Members(i) == {j \in 1..Len(args.dataset) : KeyOf(j) = KeyOf(i)}

\* the elements of the cell of column c on row j: the cell itself, or the
\* elements of a list-valued cell
Elements(j, c) ==
    LET cell == args.dataset[j][c]
    IN  IF cell.k = "list" THEN cell.xs ELSE <<cell>>

\* where the non-null values of column c in the group of row i stand:
\* <<row, element>>
NonNull(i, c) ==
    UNION {{<<j, e>> : e \in {e \in 1..Len(Elements(j, c)) : Elements(j, c)[e].k # "none"}} :
           j \in {j \in Members(i) : c \in DOMAIN args.dataset[j]}}

ValueAt(c, p) == Elements(p[1], c)[p[2]].n

RECURSIVE Total(_, _)
Total(c, P) ==
    IF P = {} THEN 0
    ELSE LET p == CHOOSE q \in P : TRUE IN ValueAt(c, p) + Total(c, P \ {p})

\* C2: one output row per distinct grouping key, in the order in which the
\* keys first occur in the input, each carrying its key under groupby_column.
C2_OneRowPerKey ==
    Grouped =>
        /\ result.status = "return"
        /\ Len(result.value) = Cardinality(FirstSeen)
        /\ \A k \in 1..Len(result.value) :
             /\ args.groupby_column \in DOMAIN result.value[k]
             /\ result.value[k][args.groupby_column] = KeyOf(NthFirstSeen(k))

\* C3: in the rows a call returns, the field of a configured column that has
\* a non-null value in the group is the aggregate of all the non-null values
\* of the column over the group: their sum, their maximum, or sum / count;
\* for a single value all three are that value.
C3_AggregatesAllValues ==
    Grouped /\ result.status = "return" =>
        /\ Len(result.value) = Cardinality(FirstSeen)
        /\ \A k \in 1..Len(result.value) :
             \A c \in DOMAIN args.aggregation_functions :
                LET i == NthFirstSeen(k)
                    P == NonNull(i, c)
                    kind == args.aggregation_functions[c]
                    field == result.value[k][c]
                IN  P # {} /\ kind \in Kinds =>
                      /\ c \in DOMAIN result.value[k]
                      /\ field.k = "num"
                      /\ kind = "sum" => field.d = 1 /\ field.n = Total(c, P)
                      /\ kind = "max" =>
                            /\ field.d = 1
                            /\ \E p \in P : ValueAt(c, p) = field.n
                            /\ \A p \in P : ValueAt(c, p) <= field.n
                      /\ kind = "mean" => field.n * Cardinality(P) = Total(c, P) * field.d
                      /\ Cardinality(P) = 1 =>
                            \A p \in P : field = Num(ValueAt(c, p))

\* a returned mean over a group of several rows, a list-valued cell among
\* them, that is no whole number
C3_Witness ==
    /\ Grouped /\ result.status = "return"
    /\ "v" \in DOMAIN args.aggregation_functions
    /\ args.aggregation_functions["v"] = "mean"
    /\ \E k \in 1..Len(result.value) :
         /\ Cardinality(Members(NthFirstSeen(k))) >= 2
         /\ Cardinality(NonNull(NthFirstSeen(k), "v")) >= 2
         /\ \E j \in Members(NthFirstSeen(k)) :
               "v" \in DOMAIN args.dataset[j] /\ args.dataset[j]["v"].k = "list"
         /\ "v" \in DOMAIN result.value[k]
         /\ result.value[k]["v"].d > 1

\* column c is on some row of the group of row i
OnSomeRow(i, c) == \E j \in Members(i) : c \in DOMAIN args.dataset[j]

\* C10: a configured column that is on a row of the group but contributes
\* only nulls gives None under mean and 0 under sum, and under max the call
\* raises; a returned row lacks the field of a column under sum, mean or max
\* only when the column is on no row of the group.
C10_EmptyAccumulator ==
    Grouped =>
        \A i \in FirstSeen : \A c \in DOMAIN args.aggregation_functions :
            LET kind == args.aggregation_functions[c]
                k == Cardinality({j \in FirstSeen : j <= i})
            IN  /\ OnSomeRow(i, c) /\ NonNull(i, c) = {} /\ kind = "max" =>
                      result = Raise("ValueError")
                /\ result.status = "return" /\ kind \in Kinds =>
                      /\ c \in DOMAIN result.value[k] <=>
                            (OnSomeRow(i, c) \/ c = args.groupby_column)
                      /\ OnSomeRow(i, c) /\ NonNull(i, c) = {} =>
                            /\ kind = "mean" => result.value[k][c] = None
                            /\ kind = "sum" => result.value[k][c] = Num(0)

\* max over a group whose rows hold the column with nothing but nulls
C10_Witness ==
    /\ Grouped
    /\ "v" \in DOMAIN args.aggregation_functions
    /\ args.aggregation_functions["v"] = "max"
    /\ \E i \in FirstSeen :
         /\ OnSomeRow(i, "v") /\ NonNull(i, "v") = {}
         /\ \E j \in Members(i) :
               "v" \in DOMAIN args.dataset[j] /\ args.dataset[j]["v"] = List(<<>>)
    /\ \E i \in FirstSeen : NonNull(i, "v") # {}
    /\ result.status = "raise"

\* ------------------------------------------------------------- dataSampling
\* a sample size rounded to the nearest integer
sampleSizeRounded(total_size, num, den) == (2 * total_size * num + den) \div (2 * den)

\* line 139: int(total_size * fraction), fraction = num / den >= 0
sampleSize(total_size, num, den) == (total_size * num) \div den

\* line 143: dataset_copy.pop(index) leaves the list without that element
popped(copy, index) == SubSeq(copy, 1, index) \o SubSeq(copy, index + 2, Len(copy))

\* lines 141-146: the loop, `remaining` iterations to go; seed % 0 raises
RECURSIVE draw(_, _, _, _)
draw(dataset_copy, sampled_data, seed, remaining) ==
    IF remaining = 0 THEN Return(sampled_data)
    ELSE IF Len(dataset_copy) = 0 THEN Raise("ZeroDivisionError")
    ELSE LET index == seed % Len(dataset_copy)
         IN  draw(popped(dataset_copy, index),
                  Append(sampled_data, dataset_copy[index + 1]),
                  seed + 1, remaining - 1)

\* lines 134-146
dataSampling(ds, num, den, seed) ==
    draw(ds, <<>>, seed, sampleSize(Len(ds), num, den))

SampleDatasets == SeqsUpTo({[c \in {"a"} |-> x] : x \in Nums}, MaxSampleRows)

InitSampling ==
    /\ pc = "ready"
    /\ dataset \in SampleDatasets
    /\ args = NoArgs
    /\ result = NoResult

DataSampling ==
    /\ pc = "ready"
    /\ \E num \in 0..MaxNum, den \in 1..MaxDen, seed \in 0..MaxSeed :
        /\ args' = [op |-> "dataSampling", dataset |-> dataset,
                    num |-> num, den |-> den, seed |-> seed]
        /\ result' = dataSampling(dataset, num, den, seed)
    /\ pc' = "done"
    /\ UNCHANGED dataset

SpecSampling == InitSampling /\ [][DataSampling]_vars

Sampled == pc = "done" /\ args.op = "dataSampling"

\* how often row r stands in the sequence rows
Occurrences(rows, r) == Cardinality({i \in 1..Len(rows) : rows[i] = r})

RowsOf(rows) == {rows[i] : i \in 1..Len(rows)}

\* C6: for a fraction in [0,1] and any seed the call returns exactly
\* floor(len(D) * fraction) rows, no row more often than D holds it; nothing
\* for fraction 0 and exactly the rows of D for fraction 1.
C6_SampleSizeAndSubMultiset ==
    Sampled /\ args.num <= args.den =>
        /\ result.status = "return"
        /\ \E n \in 0..Len(args.dataset) :
             /\ n * args.den <= Len(args.dataset) * args.num
             /\ Len(args.dataset) * args.num < (n + 1) * args.den
             /\ Len(result.value) = n
        /\ \A r \in RowsOf(result.value) :
             Occurrences(result.value, r) <= Occurrences(args.dataset, r)
        /\ args.num = 0 => result.value = <<>>
        /\ args.num = args.den =>
             \A r \in RowsOf(args.dataset) :
                Occurrences(result.value, r) = Occurrences(args.dataset, r)

\* a proper fraction of a dataset that holds a row twice, two rows or more
\* drawn, the product len(D) * fraction no whole number
C6_Witness ==
    /\ Sampled
    /\ 0 < args.num /\ args.num < args.den
    /\ (Len(args.dataset) * args.num) % args.den # 0
    /\ args.seed > Len(args.dataset)
    /\ \E r \in RowsOf(args.dataset) : Occurrences(args.dataset, r) >= 2
    /\ result.status = "return"
    /\ Len(result.value) >= 2
    /\ result.value[1] # args.dataset[1]

\* C7: for a fraction >= 1 the call returns, and returns every element of D
\* exactly once.
C7_DrainsAndReturns ==
    Sampled /\ args.num >= args.den =>
        /\ result.status = "return"
        /\ Len(result.value) = Len(args.dataset)
        /\ \A r \in RowsOf(args.dataset) :
             Occurrences(result.value, r) = Occurrences(args.dataset, r)

\* ------------------------------------------------------------- dataPivoting
\* an assignment that keeps the value the key already has
assignKeepFirst(pivoted_data, key, value) ==
    IF \E k \in 1..Len(pivoted_data) : pivoted_data[k].key = key
    THEN pivoted_data
    ELSE Append(pivoted_data, [key |-> key, value |-> value])

\* lines 160-162: pivoted_data[key] = value on a dict in insertion order (a
\* sequence of [key, value]): a key already there keeps its place
assign(pivoted_data, key, value) ==
    IF \E k \in 1..Len(pivoted_data) : pivoted_data[k].key = key
    THEN [k \in 1..Len(pivoted_data) |->
            IF pivoted_data[k].key = key THEN [key |-> key, value |-> value]
            ELSE pivoted_data[k]]
    ELSE Append(pivoted_data, [key |-> key, value |-> value])

\* lines 157-162
RECURSIVE pivot(_, _, _, _)
pivot(pivoted_data, ds, pivot_column, value_column) ==
    IF ds = <<>> THEN pivoted_data
    ELSE pivot(assign(pivoted_data, Head(ds)[pivot_column], Head(ds)[value_column]),
               Tail(ds), pivot_column, value_column)

\* lines 157-163; a row without one of the two columns raises KeyError
dataPivoting(ds, pivot_column, value_column) ==
    IF \E i \in 1..Len(ds) : ~({pivot_column, value_column} \subseteq DOMAIN ds[i])
    THEN Raise("KeyError")
    ELSE LET pivoted_data == pivot(<<>>, ds, pivot_column, value_column)
         IN  Return([k \in 1..Len(pivoted_data) |->
                        [pivot_column |-> pivoted_data[k].key,
                         value_column |-> pivoted_data[k].value]])

PivotCells == [c \in {"p", "v"} |-> IF c = "p" THEN Nums ELSE {None} \cup Nums]
PivotDatasets == SeqsUpTo(Rows(PivotCells), MaxPivotRows)

InitPivoting ==
    /\ pc = "ready"
    /\ dataset \in PivotDatasets
    /\ args = NoArgs
    /\ result = NoResult

DataPivoting ==
    /\ pc = "ready"
    /\ args' = [op |-> "dataPivoting", dataset |-> dataset,
                pivot_column |-> "p", value_column |-> "v"]
    /\ result' = dataPivoting(dataset, "p", "v")
    /\ pc' = "done"
    /\ UNCHANGED dataset

SpecPivoting == InitPivoting /\ [][DataPivoting]_vars

\* a finished call of dataPivoting on rows that all hold both columns
Pivoted ==
    /\ pc = "done" /\ args.op = "dataPivoting"
    /\ \A i \in 1..Len(args.dataset) :
         {args.pivot_column, args.value_column} \subseteq DOMAIN args.dataset[i]

PivotOf(i) == args.dataset[i][args.pivot_column]

FirstPivot == {i \in 1..Len(args.dataset) : \A j \in 1..(i - 1) : PivotOf(j) # PivotOf(i)}

LastPivot == {i \in 1..Len(args.dataset) :
                \A j \in (i + 1)..Len(args.dataset) : PivotOf(j) # PivotOf(i)}

\* C8: one row per distinct pivot value, in the order in which the pivot
\* values first appear, each with the value cell of the last input row that
\* has the pivot value.
C8_PivotLastWins ==
    Pivoted =>
        /\ result.status = "return"
        /\ Len(result.value) = Cardinality(FirstPivot)
        /\ \A k \in 1..Len(result.value) :
             LET first == CHOOSE i \in FirstPivot :
                              Cardinality({j \in FirstPivot : j < i}) = k - 1
                 last == CHOOSE i \in LastPivot : PivotOf(i) = PivotOf(first)
             IN  result.value[k] =
                    [pivot_column |-> PivotOf(first),
                     value_column |-> args.dataset[last][args.value_column]]

\* a pivot value that comes back after another one, with another value cell
C8_Witness ==
    /\ Pivoted
    /\ Len(args.dataset) >= 3
    /\ PivotOf(1) = PivotOf(3) /\ PivotOf(1) # PivotOf(2)
    /\ args.dataset[1]["v"] # args.dataset[3]["v"]
    /\ Len(result.value) = 2
    /\ result.value[1].value_column = args.dataset[3]["v"]

\* ------------------------------------------------------- columnManipulation
Functions == {"increment", "double"}

\* manipulation_function(value), one of two functions on numbers
apply(f, value) == IF f = "increment" THEN Num(value.n + 1) ELSE Num(2 * value.n)

\* the rows before the first row without `column` (all rows when there is none)
reached(ds, column) ==
    {i \in 1..Len(ds) : \A j \in 1..i : column \in DOMAIN ds[j]}

\* lines 12-13: the caller's list when the loop ends or dataset[i][column] raises
manipulated(ds, column, f) ==
    [i \in 1..Len(ds) |->
        IF i \in reached(ds, column)
        THEN [ds[i] EXCEPT ![column] = apply(f, @)] ELSE ds[i]]

\* lines 12-14: the returned list is the caller's list
columnManipulation(ds, column, f) ==
    IF \E i \in 1..Len(ds) : column \notin DOMAIN ds[i]
    THEN Raise("KeyError")
    ELSE Return(manipulated(ds, column, f))

MapCells == [c \in {"a", "b"} |-> IF c = "a" THEN Nums ELSE {Num(1)}]
MapDatasets == SeqsUpTo(Rows(MapCells), MaxMapRows)

InitManipulation ==
    /\ pc = "ready"
    /\ dataset \in MapDatasets
    /\ args = NoArgs
    /\ result = NoResult

ColumnManipulation ==
    /\ pc = "ready"
    /\ \E f \in Functions :
        /\ args' = [op |-> "columnManipulation", dataset |-> dataset,
                    column |-> "a", manipulation_function |-> f]
        /\ result' = columnManipulation(dataset, "a", f)
        /\ dataset' = manipulated(dataset, "a", f)
    /\ pc' = "done"

SpecManipulation == InitManipulation /\ [][ColumnManipulation]_vars

\* C9: when columnManipulation fails because a row lacks the column, the
\* caller's dataset is as it was before the call.
C9_NoPartialResult ==
    pc = "done" /\ args.op = "columnManipulation" /\ result = Raise("KeyError") =>
        dataset = args.dataset

====
